---- MODULE Spec2Model ----
(***************************************************************************)
(* Model of the constraint-satisfaction engine of battle.py (and of its    *)
(* twin battle_sol.py): class Variable with the class-wide undoDict,       *)
(* TableConstraint, NValuesConstraint, CSP.constraintsOf, GacEnforce and   *)
(* the recursive search GAC.                                               *)
(*                                                                         *)
(* Variables of the CSP are the integers 1..NV in the order of the CSP's   *)
(* variable list, constraints are the indices of the CSP's constraint      *)
(* list, values are positive integers and None is 0.  Python lists are     *)
(* sequences.                                                              *)
(***************************************************************************)
EXTENDS Integers, Sequences, FiniteSets, TLC

\* ------------------------------------------------------------------ bounds
\* number of variables of the graphs explored
NV == 3
\* capacity of one undoDict entry in the model (see LogAppend)
MaxLog == 10

\* largest value of a domain
MaxVal == 3

None == 0
Vars == 1..NV
Vals == 1..MaxVal

VARIABLES
    dom,        \* Variable._dom of every variable (a list)
    curdom,     \* Variable._curdom of every variable (a list)
    value,      \* Variable._value of every variable (None when unassigned)
    undoDict,   \* Variable.undoDict: reason pair -> list of (variable, value);
                \* the empty list stands for an absent key (a present key never
                \* holds an empty list)
    cons,       \* CSP._constraints (a list of constraint records)
    pool,       \* the list unAssignedVars shared by all calls of GAC
    stack,      \* the active calls of GAC that hold a variable: var, the
                \* list being iterated, the position in it, and noOWO; seen
                \* is history, the constraints that have been in the list of
                \* the GacEnforce call of the attempt in progress; saved
                \* is a history field, the current domains and the assigned
                \* values immediately before the attempt in progress began
    pc,         \* position of the control: "call", "loop", "enforce",
                \* "check", "restore", "done"; "apply" and "applied" before
                \* and after the call of the specification of hasSupport
                \* and check
    queue,      \* the list `constraints' of the running GacEnforce
    cur,        \* the loop position of the running GacEnforce
    sunk,       \* the calls of place_and_check_result so far, each the
                \* assignment it was called with
    ret         \* argument and result of the last application of a pure
                \* function (specifications of the pure functions only)

vars == <<dom, curdom, value, undoDict, cons, pool, stack, pc, queue, cur, sunk, ret>>

\* ------------------------------------------------------- list operations
\* list.index(x): position of the first occurrence (0 when absent)
RECURSIVE IndexFrom(_, _, _)
IndexFrom(s, x, i) ==
    IF i > Len(s) THEN 0
    ELSE IF s[i] = x THEN i
    ELSE IndexFrom(s, x, i + 1)

Index(s, x) == IndexFrom(s, x, 1)

\* x in list
InList(s, x) == \E i \in 1..Len(s) : s[i] = x

\* the set of the elements of a list
listSet(s) == { s[i] : i \in 1..Len(s) }

\* list.remove(x): the list without the first occurrence of x
ListRemove(s, x) ==
    LET i == Index(s, x)
    IN  IF i = 0 THEN s
        ELSE SubSeq(s, 1, i - 1) \o SubSeq(s, i + 1, Len(s))

\* ----------------------------------------------------------- class Variable
isAssigned(val, v) == val[v] # None

\* Variable.setValue: the new _value of the variable
setValue(d, val, v, x) ==
    IF x # None /\ ~InList(d[v], x) THEN val
    ELSE [val EXCEPT ![v] = x]

\* a curDomain that returns the stored domain also for an assigned variable
curDomain_stored(cd, val, v) == cd[v]

curDomain(cd, val, v) ==
    IF isAssigned(val, v) THEN <<val[v]>> ELSE cd[v]

\* Variable.curDomain builds a new list in both branches ([value] and
\* list(self._curdom)): after the caller has changed the returned list to q
\* the stored domains are as they were
curdomAfterChange(cd, val, v, q) == cd

curDomainSize(cd, val, v) ==
    IF isAssigned(val, v) THEN 1 ELSE Len(cd[v])

inCurDomain(cd, val, v, x) ==
    IF isAssigned(val, v) THEN x = val[v] ELSE InList(cd[v], x)

\* The undo log of the program is unbounded; an entry of the model holds at
\* most MaxLog pairs and further appends are dropped.  LogNeverFullAtRestore
\* shows that no restore ever reads an entry that dropped an append.
LogAppend(l, e) == IF Len(l) < MaxLog THEN Append(l, e) ELSE l

\* Variable.pruneValue, the effect on _curdom: a value that is not present
\* raises inside the try block and the list is left as it is
pruneCurdom(cd, v, x) == [cd EXCEPT ![v] = ListRemove(cd[v], x)]

\* pruneValue that takes the pruned variable and value for the reason key
pruneUndo_ownKey(ud, v, x, reasonVar, reasonVal) ==
    [ud EXCEPT ![<<v, x>>] = LogAppend(@, <<v, x>>)]

\* Variable.pruneValue, the effect on undoDict: the pair is logged in every
\* case, also when the value was not present
pruneUndo(ud, v, x, reasonVar, reasonVal) ==
    [ud EXCEPT ![<<reasonVar, reasonVal>>] = LogAppend(@, <<v, x>>)]

\* Variable.restoreVal applied to every pair of a list, in list order
RECURSIVE restoreAll(_, _, _)
restoreAll(cd, l, i) ==
    IF i > Len(l) THEN cd
    ELSE restoreAll([cd EXCEPT ![l[i][1]] = Append(@, l[i][2])], l, i + 1)

\* restoreValues that starts its loop one pair too late
restoreValuesCurdom_skipFirst(cd, ud, reasonVar, reasonVal) ==
    restoreAll(cd, ud[<<reasonVar, reasonVal>>], 2)

\* restoreValues that gives back the reason value in place of the pruned one
restoreValuesCurdom_reasonVal(cd, ud, reasonVar, reasonVal) ==
    LET l == ud[<<reasonVar, reasonVal>>]
    IN  restoreAll(cd, [i \in 1..Len(l) |-> <<l[i][1], reasonVal>>], 1)

\* Variable.restoreValues, the effect on the current domains
restoreValuesCurdom(cd, ud, reasonVar, reasonVal) ==
    restoreAll(cd, ud[<<reasonVar, reasonVal>>], 1)

\* restoreValues without the del of the key
restoreValuesUndo_keep(ud, reasonVar, reasonVal) == ud

\* restoreValues that empties the whole dictionary
restoreValuesUndo_clearAll(ud, reasonVar, reasonVal) == [k \in DOMAIN ud |-> <<>>]

\* Variable.restoreValues, the effect on undoDict (del of the key)
restoreValuesUndo(ud, reasonVar, reasonVal) ==
    [ud EXCEPT ![<<reasonVar, reasonVal>>] = <<>>]

\* --------------------------------------------------------- class Constraint
\* A constraint is a record: name (_name), kind ("Table" or "NValues"), scope (ordered list
\* of variables), sat (TableConstraint.satAssignments, a list of tuples),
\* req, lb, ub (NValuesConstraint._required, _lb, _ub).
arity(c) == Len(c.scope)

\* the list of assigned values collected by check(), all variables assigned
assignedTuple(c, val) == [i \in 1..Len(c.scope) |-> val[c.scope[i]]]

allAssigned(c, val) == \A i \in 1..Len(c.scope) : isAssigned(val, c.scope[i])

\* number of values of a list that are in _required (rv_count)
RECURSIVE rvCount(_, _, _)
rvCount(c, l, i) ==
    IF i > Len(l) THEN 0
    ELSE (IF l[i] \in c.req THEN 1 ELSE 0) + rvCount(c, l, i + 1)

\* check() without the early return for an unassigned variable
TableCheck_noEarlyReturn(c, val) == InList(c.sat, assignedTuple(c, val))

\* TableConstraint.check
TableCheck(c, val) ==
    IF ~allAssigned(c, val) THEN TRUE
    ELSE InList(c.sat, assignedTuple(c, val))

\* check() with the upper bound taken as exclusive
NValuesCheck_strictUpper(c, val) ==
    IF ~allAssigned(c, val) THEN TRUE
    ELSE LET rv_count == rvCount(c, assignedTuple(c, val), 1)
         IN  c.lb <= rv_count /\ c.ub > rv_count

\* NValuesConstraint.check
NValuesCheck(c, val) ==
    IF ~allAssigned(c, val) THEN TRUE
    ELSE LET rv_count == rvCount(c, assignedTuple(c, val), 1)
         IN  c.lb <= rv_count /\ c.ub >= rv_count

check(c, val) ==
    IF c.kind = "Table" THEN TableCheck(c, val) ELSE NValuesCheck(c, val)

\* an inner loop that accepts a tuple only where the other variables are
\* assigned its values
tupleFits_assignedOnly(c, cd, val, vindex, t) ==
    \A i \in 1..Len(c.scope) :
        i = vindex \/ val[c.scope[i]] = t[i]

\* TableConstraint.hasSupport, the inner loop over the scope for one tuple
tupleFits(c, cd, val, vindex, t) ==
    \A i \in 1..Len(c.scope) :
        i = vindex \/ inCurDomain(cd, val, c.scope[i], t[i])

\* the loop over satAssignments that stops at the first tuple giving var the
\* value, whether that tuple fits or not
RECURSIVE tableScan_firstMatch(_, _, _, _, _, _)
tableScan_firstMatch(c, cd, val, vindex, x, k) ==
    IF k > Len(c.sat) THEN FALSE
    ELSE IF c.sat[k][vindex] # x THEN tableScan_firstMatch(c, cd, val, vindex, x, k + 1)
    ELSE tupleFits(c, cd, val, vindex, c.sat[k])

\* TableConstraint.hasSupport, the loop over satAssignments from position k
RECURSIVE tableScan(_, _, _, _, _, _)
tableScan(c, cd, val, vindex, x, k) ==
    IF k > Len(c.sat) THEN FALSE
    ELSE IF c.sat[k][vindex] # x THEN tableScan(c, cd, val, vindex, x, k + 1)
    ELSE IF tupleFits(c, cd, val, vindex, c.sat[k]) THEN TRUE
    ELSE tableScan(c, cd, val, vindex, x, k + 1)

\* a hasSupport that finds no support for a variable outside the scope
TableHasSupport_outsideFalse(c, cd, val, var, x) ==
    IF ~InList(c.scope, var) THEN FALSE
    ELSE tableScan(c, cd, val, Index(c.scope, var), x, 1)

\* TableConstraint.hasSupport
TableHasSupport(c, cd, val, var, x) ==
    IF ~InList(c.scope, var) THEN TRUE
    ELSE tableScan(c, cd, val, Index(c.scope, var), x, 1)

\* list.sort(reverse=True, key=curDomainSize): stable, largest first
RECURSIVE sortInsert(_, _, _, _)
sortInsert(s, v, cd, val) ==
    IF s = <<>> THEN <<v>>
    ELSE IF curDomainSize(cd, val, Head(s)) > curDomainSize(cd, val, v)
         THEN <<Head(s)>> \o sortInsert(Tail(s), v, cd, val)
         ELSE <<v>> \o s

RECURSIVE sortBySize(_, _, _, _)
sortBySize(s, i, cd, val) ==
    IF i > Len(s) THEN <<>>
    ELSE sortInsert(sortBySize(s, i + 1, cd, val), s[i], cd, val)

\* valsOK that gives a partial assignment no credit for the variables still
\* to be assigned
valsOK_noSlack(c, l) ==
    LET rv_count == rvCount(c, l, 1)
    IN  c.lb <= rv_count /\ c.ub >= rv_count

\* valsOK without the test of the upper bound
valsOK_noUpper(c, l) ==
    LET rv_count == rvCount(c, l, 1)
        least == rv_count + arity(c) - Len(l)
    IN  c.lb <= least

\* valsOK of NValuesConstraint.hasSupport, on the list of values assigned
valsOK(c, l) ==
    LET rv_count == rvCount(c, l, 1)
        least == rv_count + arity(c) - Len(l)
        most == rv_count
    IN  c.lb <= least /\ c.ub >= most

\* findvals_: remainingVars is popped from its end; l holds the values of
\* the assignment built so far
RECURSIVE findvals_(_, _, _, _, _)
findvals_(c, cd, val, remainingVars, l) ==
    IF Len(remainingVars) = 0 THEN valsOK(c, l)
    ELSE LET var == remainingVars[Len(remainingVars)]
             rest == SubSeq(remainingVars, 1, Len(remainingVars) - 1)
             d == curDomain(cd, val, var)
         IN  \E k \in 1..Len(d) :
                /\ valsOK(c, Append(l, d[k]))
                /\ findvals_(c, cd, val, rest, Append(l, d[k]))

findvals(c, cd, val, remainingVars, l) ==
    findvals_(c, cd, val, sortBySize(remainingVars, 1, cd, val), l)

\* NValuesConstraint.hasSupport
NValuesHasSupport(c, cd, val, var, x) ==
    IF ~InList(c.scope, var) THEN TRUE
    ELSE findvals(c, cd, val, ListRemove(c.scope, var), <<x>>)

hasSupport(c, cd, val, var, x) ==
    IF c.kind = "Table" THEN TableHasSupport(c, cd, val, var, x)
    ELSE NValuesHasSupport(c, cd, val, var, x)

\* ------------------------------------------------------------------ class CSP
\* CSP.constraintsOf: the constraints (indices into the constraint list) with
\* var in their scope, in the order of the constraint list
RECURSIVE constraintsOfFrom(_, _, _)
constraintsOfFrom(cs, var, i) ==
    IF i > Len(cs) THEN <<>>
    ELSE (IF InList(cs[i].scope, var) THEN <<i>> ELSE <<>>)
         \o constraintsOfFrom(cs, var, i + 1)

constraintsOf(cs, var) == constraintsOfFrom(cs, var, 1)

\* ------------------------------------------------------------------- graphs
Table(name, scope, sat) ==
    [name |-> name, kind |-> "Table", scope |-> scope, sat |-> sat, req |-> {}, lb |-> 0, ub |-> 0]

NValues(name, scope, req, lb, ub) ==
    [name |-> name, kind |-> "NValues", scope |-> scope, sat |-> <<>>, req |-> req, lb |-> lb, ub |-> ub]

\* The constraints the explored graphs are built from; a graph holds any
\* sub-list of them, over NV variables with the domains of Doms.
Catalog ==
    << Table("AneqB", <<1, 2>>, << <<1, 2>>, <<2, 1>> >>),
       Table("Bis2", <<2>>, << <<2>> >>),
       Table("Bis2again", <<2>>, << <<2>> >>),
       Table("BC", <<2, 3>>, << <<2, 1>>, <<2, 2>>, <<1, 2>> >>),
       Table("Bis2C", <<2, 3>>, << <<2, 1>>, <<2, 2>> >>),
       Table("AC", <<1, 3>>, << <<1, 1>>, <<2, 1>>, <<2, 2>> >>),
       NValues("ones", <<1, 2, 3>>, {1}, 1, 2) >>

\* the sub-list of a list at the positions of a set
RECURSIVE subList(_, _, _)
subList(s, keep, i) ==
    IF i > Len(s) THEN <<>>
    ELSE (IF i \in keep THEN <<s[i]>> ELSE <<>>) \o subList(s, keep, i + 1)

Graphs == { subList(Catalog, keep, 1) : keep \in SUBSET (1..Len(Catalog)) }

Doms == { [v \in Vars |-> <<1, 2>>],
          [v \in Vars |-> IF v = 2 THEN <<3, 1, 2>> ELSE <<1, 2>>],
          [v \in Vars |-> IF v = 2 THEN <<1>> ELSE <<1, 2>>] }

\* the reason pairs
Keys == Vars \X Vals

NoCur == [c |-> 0, vi |-> 0, vals |-> <<>>, ki |-> 1]
NoRet == [op |-> "none", var |-> 0, x |-> 0, result |-> FALSE]

\* ------------------------------------------------------------------- search
\* State after the construction of the variables and of the CSP and before
\* the call GAC(CSP.variables(csp), ...) of the main program.
Init ==
    /\ dom \in Doms
    /\ curdom = dom
    /\ value = [v \in Vars |-> None]
    /\ undoDict = [k \in Keys |-> <<>>]
    /\ cons \in Graphs
    /\ pool = [i \in 1..NV |-> i]
    /\ stack = <<>>
    /\ pc = "call"
    /\ queue = <<>>
    /\ cur = NoCur
    /\ sunk = <<>>
    /\ ret = NoRet

top == stack[Len(stack)]
\* the reason pair of the attempt of the innermost call
topVar == top.var
topVal == top.vals[top.idx]

\* control after a call of GAC returns: the caller resumes at restoreValues,
\* the main program is done
afterReturn(st) == IF st = <<>> THEN "done" ELSE "restore"

\* a search that stops at the first call of the sink
GACSink_stop ==
    /\ pc = "call"
    /\ pool = <<>>
    /\ sunk' = Append(sunk, value)
    /\ pc' = "done"
    /\ UNCHANGED <<dom, curdom, value, undoDict, cons, pool, stack, queue, cur, ret>>

\* GAC, unAssignedVars == []: place_and_check_result is called and GAC returns
GACSink ==
    /\ pc = "call"
    /\ pool = <<>>
    /\ sunk' = Append(sunk, value)
    /\ pc' = afterReturn(stack)
    /\ UNCHANGED <<dom, curdom, value, undoDict, cons, pool, stack, queue, cur, ret>>

\* GAC, var = unAssignedVars.pop(0) and the start of `for val in var.curDomain()'
GACSelect ==
    /\ pc = "call"
    /\ pool # <<>>
    /\ pool' = Tail(pool)
    /\ stack' = Append(stack, [var |-> Head(pool),
                               vals |-> curDomain(curdom, value, Head(pool)),
                               idx |-> 1, noOWO |-> TRUE,
                               saved |-> [curdom |-> curdom, value |-> value],
                               seen |-> {}])
    /\ pc' = "loop"
    /\ UNCHANGED <<dom, curdom, value, undoDict, cons, queue, cur, sunk, ret>>

\* an iteration whose assignment also narrows the stored current domain of
\* the variable to the assigned value
GACTry_narrow ==
    /\ pc = "loop"
    /\ top.idx <= Len(top.vals)
    /\ value' = setValue(dom, value, topVar, topVal)
    /\ curdom' = [curdom EXCEPT ![topVar] = <<topVal>>]
    /\ stack' = [stack EXCEPT ![Len(stack)].noOWO = TRUE,
                              ![Len(stack)].saved = [curdom |-> curdom, value |-> value],
                              ![Len(stack)].seen = listSet(constraintsOf(cons, topVar))]
    /\ queue' = constraintsOf(cons, topVar)
    /\ cur' = NoCur
    /\ pc' = "enforce"
    /\ UNCHANGED <<dom, undoDict, cons, pool, sunk, ret>>

\* GAC, one iteration begins: var.setValue(val), noOWO = True and the call
\* GacEnforce(csp, csp.constraintsOf(var), var, val)
GACTry ==
    /\ pc = "loop"
    /\ top.idx <= Len(top.vals)
    /\ value' = setValue(dom, value, topVar, topVal)
    /\ stack' = [stack EXCEPT ![Len(stack)].noOWO = TRUE,
                              ![Len(stack)].saved = [curdom |-> curdom, value |-> value],
                              ![Len(stack)].seen = listSet(constraintsOf(cons, topVar))]
    /\ queue' = constraintsOf(cons, topVar)
    /\ cur' = NoCur
    /\ pc' = "enforce"
    /\ UNCHANGED <<dom, curdom, undoDict, cons, pool, sunk, ret>>

\* a return that unassigns the variable and does not put it back in the pool
GACExhaust_noAppend ==
    /\ pc = "loop"
    /\ top.idx > Len(top.vals)
    /\ value' = setValue(dom, value, topVar, None)
    /\ stack' = SubSeq(stack, 1, Len(stack) - 1)
    /\ pc' = afterReturn(stack')
    /\ UNCHANGED <<dom, curdom, undoDict, cons, pool, queue, cur, sunk, ret>>

\* GAC, the loop is exhausted: var.setValue(None), unAssignedVars.append(var)
\* and return
GACExhaust ==
    /\ pc = "loop"
    /\ top.idx > Len(top.vals)
    /\ value' = setValue(dom, value, topVar, None)
    /\ pool' = Append(pool, topVar)
    /\ stack' = SubSeq(stack, 1, Len(stack) - 1)
    /\ pc' = afterReturn(stack')
    /\ UNCHANGED <<dom, curdom, undoDict, cons, queue, cur, sunk, ret>>

\* GAC, Variable.restoreValues(var, val) and the step to the next value
GACRestore ==
    /\ pc = "restore"
    /\ curdom' = restoreValuesCurdom(curdom, undoDict, topVar, topVal)
    /\ undoDict' = restoreValuesUndo(undoDict, topVar, topVal)
    /\ stack' = [stack EXCEPT ![Len(stack)].idx = @ + 1]
    /\ pc' = "loop"
    /\ UNCHANGED <<dom, value, cons, pool, queue, cur, sunk, ret>>

\* GacEnforce, `while not constraints == []' with a non-empty list:
\* cons = constraints.pop(0)
EnfPop ==
    /\ pc = "enforce"
    /\ queue # <<>>
    /\ queue' = Tail(queue)
    /\ cur' = [c |-> Head(queue), vi |-> 0, vals |-> <<>>, ki |-> 1]
    /\ pc' = "check"
    /\ UNCHANGED <<dom, curdom, value, undoDict, cons, pool, stack, sunk, ret>>

\* GacEnforce, the list is empty: return 'OK'; GAC then calls itself
EnfOK ==
    /\ pc = "enforce"
    /\ queue = <<>>
    /\ cur' = NoCur
    /\ pc' = "call"
    /\ UNCHANGED <<dom, curdom, value, undoDict, cons, pool, stack, queue, sunk, ret>>

curCons == cons[cur.c]

\* GacEnforce, `for var in cons.scope()' takes the next variable and
\* `for val in var.curDomain()' takes a copy of its current domain
EnfNextVar ==
    /\ pc = "check"
    /\ cur.ki > Len(cur.vals)
    /\ cur.vi < Len(curCons.scope)
    /\ cur' = [cur EXCEPT !.vi = @ + 1,
                          !.vals = curDomain(curdom, value, curCons.scope[cur.vi + 1]),
                          !.ki = 1]
    /\ UNCHANGED <<dom, curdom, value, undoDict, cons, pool, stack, pc, queue, sunk, ret>>

\* GacEnforce, the scope of cons is exhausted: back to the while loop
EnfConsDone ==
    /\ pc = "check"
    /\ cur.ki > Len(cur.vals)
    /\ cur.vi >= Len(curCons.scope)
    /\ cur' = NoCur
    /\ pc' = "enforce"
    /\ UNCHANGED <<dom, curdom, value, undoDict, cons, pool, stack, queue, sunk, ret>>

curVar == curCons.scope[cur.vi]
curVal == cur.vals[cur.ki]

\* the appends of the recheck loop without the test `not recheck in
\* constraints'
RECURSIVE recheckFrom_noMembership(_, _, _, _)
recheckFrom_noMembership(q, l, c, i) ==
    IF i > Len(l) THEN q
    ELSE recheckFrom_noMembership(IF l[i] # c THEN Append(q, l[i]) ELSE q,
                                  l, c, i + 1)

\* the constraints appended by `for recheck in csp.constraintsOf(var)', from
\* position i of that list
RECURSIVE recheckFrom(_, _, _, _)
recheckFrom(q, l, c, i) ==
    IF i > Len(l) THEN q
    ELSE recheckFrom(IF l[i] # c /\ ~InList(q, l[i]) THEN Append(q, l[i]) ELSE q,
                     l, c, i + 1)

\* GacEnforce, cons.hasSupport(var, val) is true: next value
EnfSupported ==
    /\ pc = "check"
    /\ cur.ki <= Len(cur.vals)
    /\ hasSupport(curCons, curdom, value, curVar, curVal)
    /\ cur' = [cur EXCEPT !.ki = @ + 1]
    /\ UNCHANGED <<dom, curdom, value, undoDict, cons, pool, stack, pc, queue, sunk, ret>>

\* a wipeout that makes GAC return at once instead of setting noOWO = False
EnfPruneWipeout_return ==
    /\ pc = "check"
    /\ cur.ki <= Len(cur.vals)
    /\ ~hasSupport(curCons, curdom, value, curVar, curVal)
    /\ curdom' = pruneCurdom(curdom, curVar, curVal)
    /\ undoDict' = pruneUndo(undoDict, curVar, curVal, topVar, topVal)
    /\ curDomainSize(curdom', value, curVar) = 0
    /\ stack' = SubSeq(stack, 1, Len(stack) - 1)
    /\ queue' = <<>>
    /\ cur' = NoCur
    /\ pc' = afterReturn(stack')
    /\ UNCHANGED <<dom, value, cons, pool, sunk, ret>>

\* a wipeout on which the enforcer itself takes the assignment back
EnfPruneWipeout_unassign ==
    /\ pc = "check"
    /\ cur.ki <= Len(cur.vals)
    /\ ~hasSupport(curCons, curdom, value, curVar, curVal)
    /\ curdom' = pruneCurdom(curdom, curVar, curVal)
    /\ undoDict' = pruneUndo(undoDict, curVar, curVal, topVar, topVal)
    /\ curDomainSize(curdom', value, curVar) = 0
    /\ value' = setValue(dom, value, topVar, None)
    /\ stack' = [stack EXCEPT ![Len(stack)].noOWO = FALSE]
    /\ queue' = <<>>
    /\ cur' = NoCur
    /\ pc' = "restore"
    /\ UNCHANGED <<dom, cons, pool, sunk, ret>>

\* GacEnforce, no support, the value is pruned and curDomainSize() is 0:
\* return 'OWO'; GAC sets noOWO = False and goes on to restoreValues
EnfPruneWipeout ==
    /\ pc = "check"
    /\ cur.ki <= Len(cur.vals)
    /\ ~hasSupport(curCons, curdom, value, curVar, curVal)
    /\ curdom' = pruneCurdom(curdom, curVar, curVal)
    /\ undoDict' = pruneUndo(undoDict, curVar, curVal, topVar, topVal)
    /\ curDomainSize(curdom', value, curVar) = 0
    /\ stack' = [stack EXCEPT ![Len(stack)].noOWO = FALSE]
    /\ queue' = <<>>
    /\ cur' = NoCur
    /\ pc' = "restore"
    /\ UNCHANGED <<dom, value, cons, pool, sunk, ret>>

\* GacEnforce, no support, the value is pruned and curDomainSize() is not 0:
\* the other constraints of var are appended to the list, next value
EnfPruneRecheck ==
    /\ pc = "check"
    /\ cur.ki <= Len(cur.vals)
    /\ ~hasSupport(curCons, curdom, value, curVar, curVal)
    /\ curdom' = pruneCurdom(curdom, curVar, curVal)
    /\ undoDict' = pruneUndo(undoDict, curVar, curVal, topVar, topVal)
    /\ curDomainSize(curdom', value, curVar) # 0
    /\ queue' = recheckFrom(queue, constraintsOf(cons, curVar), cur.c, 1)
    /\ stack' = [stack EXCEPT ![Len(stack)].seen = @ \cup listSet(queue')]
    /\ cur' = [cur EXCEPT !.ki = @ + 1]
    /\ UNCHANGED <<dom, value, cons, pool, pc, sunk, ret>>

Next ==
    \/ GACSink
    \/ GACSelect
    \/ GACTry
    \/ GACExhaust
    \/ GACRestore
    \/ EnfPop
    \/ EnfOK
    \/ EnfNextVar
    \/ EnfConsDone
    \/ EnfSupported
    \/ EnfPruneWipeout
    \/ EnfPruneRecheck

Spec == Init /\ [][Next]_vars

\* The search is one sequential program: whenever a step is possible, one is
\* taken.
FairSpec == Spec /\ WF_vars(Next)

\* ---------------------------------------------- propagation run twice
\* The enforcer has returned 'OK' for the attempt in progress and is called
\* once more with the same worklist seed csp.constraintsOf(var) and the same
\* reason pair; ret keeps the current domains and the undo log it starts from.
EnfRerun ==
    /\ pc = "enforce"
    /\ queue = <<>>
    /\ ret.op = "none"
    /\ queue' = constraintsOf(cons, topVar)
    /\ ret' = [op |-> "rerun", depth |-> Len(stack), idx |-> top.idx,
               curdom |-> curdom, undoDict |-> undoDict]
    /\ UNCHANGED <<dom, curdom, value, undoDict, cons, pool, stack, pc, cur, sunk>>

NextRerun == Next \/ EnfRerun

SpecRerun == Init /\ [][NextRerun]_vars

\* --------------------------------------- hasSupport and check applied
\* lists of at most n elements of a set
RECURSIVE listsUpTo(_, _)
listsUpTo(S, n) ==
    IF n = 0 THEN { <<>> }
    ELSE LET shorter == listsUpTo(S, n - 1)
         IN  shorter \cup { Append(l, x) : l \in shorter, x \in S }

\* longest list of satisfying tuples drawn for a table
MaxTuples == 2

\* the tuples the tables over three variables are drawn from
Tuples3 == { <<1, 1, 1>>, <<1, 2, 2>>, <<2, 1, 2>>, <<2, 2, 1>> }

\* the constraints hasSupport and check are applied to
PureTables ==
    { Table("t", <<1>>, sat) : sat \in listsUpTo({ <<1>>, <<2>> }, MaxTuples) }
    \cup { Table("t", scope, sat) : scope \in { <<1, 2>>, <<2, 1>> },
                                    sat \in listsUpTo({1, 2} \X {1, 2}, MaxTuples) }
    \cup { Table("t", <<3, 1, 2>>, sat) : sat \in listsUpTo(Tuples3, MaxTuples) }

PureNValues ==
    { NValues("n", scope, req, lb, ub) :
        scope \in { <<2, 1>>, <<1, 2, 3>> }, req \in { {1}, {1, 2} },
        lb \in 0..2, ub \in 1..3 }

\* the states of one variable: unassigned with any stored current domain, or
\* assigned with a stored current domain that holds or lacks its value
PureVarStates ==
    { [value |-> None, curdom |-> cd] : cd \in { <<>>, <<1>>, <<2>>, <<1, 2>> } }
    \cup { [value |-> 1, curdom |-> <<1, 2>>], [value |-> 2, curdom |-> <<1>>] }

\* One constraint, and any state of the variables of its scope; the other
\* variables are unassigned with their full domains.
InitPure ==
    /\ dom = [v \in Vars |-> <<1, 2>>]
    /\ \E c \in PureTables \cup PureNValues :
         \E st \in [Vars -> PureVarStates] :
            /\ \A v \in Vars :
                  ~InList(c.scope, v) => st[v] = [value |-> None, curdom |-> dom[v]]
            /\ cons = <<c>>
            /\ curdom = [v \in Vars |-> st[v].curdom]
            /\ value = [v \in Vars |-> st[v].value]
    /\ undoDict = [k \in Keys |-> <<>>]
    /\ pool = <<>>
    /\ stack = <<>>
    /\ pc = "apply"
    /\ queue = <<>>
    /\ cur = NoCur
    /\ sunk = <<>>
    /\ ret = NoRet

\* a scope() that hands out the list _scope itself: the remove of
\* NValuesConstraint.hasSupport and the sort of findvals then work on the
\* scope of the constraint
scopeAfterHasSupport_shared(c, cd, val, var) ==
    IF c.kind = "NValues" /\ InList(c.scope, var)
    THEN sortBySize(ListRemove(c.scope, var), 1, cd, val)
    ELSE c.scope

\* The scope of the constraint after hasSupport(var, x): Constraint.scope
\* returns list(self._scope), so varsToAssign.remove(var), the sort of
\* findvals and the pops of findvals_ work on a copy.
scopeAfterHasSupport(c, cd, val, var) == c.scope

\* cons.hasSupport(var, x) is called
ApplyHasSupport ==
    /\ pc = "apply"
    /\ \E var \in Vars, x \in Vals :
         /\ ret' = [op |-> "hasSupport", var |-> var, x |-> x,
                    result |-> hasSupport(cons[1], curdom, value, var, x)]
         /\ cons' = <<[cons[1] EXCEPT
                         !.scope = scopeAfterHasSupport(cons[1], curdom, value, var)]>>
    /\ pc' = "applied"
    /\ UNCHANGED <<dom, curdom, value, undoDict, pool, stack, queue, cur, sunk>>

\* cons.check() is called
ApplyCheck ==
    /\ pc = "apply"
    /\ ret' = [op |-> "check", var |-> 0, x |-> 0, result |-> check(cons[1], value)]
    /\ pc' = "applied"
    /\ UNCHANGED <<dom, curdom, value, undoDict, cons, pool, stack, queue, cur, sunk>>

NextPure == ApplyHasSupport \/ ApplyCheck

SpecPure == InitPure /\ [][NextPure]_vars

\* ------------------------------------------------------------------ claims
\* the full assignments over the original domains
FullAssignments == { a \in [Vars -> Vals] : \A v \in Vars : InList(dom[v], a[v]) }

\* a full assignment satisfies every constraint of the graph
Satisfies(a) == \A i \in 1..Len(cons) : check(cons[i], a)

\* number of calls of the sink with assignment a
sunkCount(a) == Cardinality({ i \in 1..Len(sunk) : sunk[i] = a })

\* number of occurrences of x in a list
occurrences(s, x) == Cardinality({ i \in 1..Len(s) : s[i] = x })

\* two lists hold the same values, whatever the order and the multiplicity
sameValues(s, t) == \A x \in Vals : InList(s, x) <=> InList(t, x)

\* two lists hold the same values the same number of times, whatever the order
sameBag(s, t) == \A x \in Vals : occurrences(s, x) = occurrences(t, x)

\* No restore reads an undoDict entry that has reached the capacity of the
\* model: the entries LogAppend drops are dropped in runs of the enforcer
\* that never return.
LogNeverFullAtRestore ==
    pc = "restore" => Len(undoDict[<<topVar, topVal>>]) < MaxLog

\* C1: at every call of the sink all variables are assigned and check() of
\* every constraint of the graph is true for the assignment.
C1_SinkSound ==
    \A i \in 1..Len(sunk) :
        /\ \A v \in Vars : sunk[i][v] # None
        /\ Satisfies(sunk[i])

\* C2: the sink is never called twice with the same assignment, and from
\* some point on it has been called exactly once with every full assignment
\* over the original domains that satisfies every constraint.
C2_ExactlyOnce ==
    /\ [](\A a \in FullAssignments : sunkCount(a) <= 1)
    /\ <>[](\A a \in FullAssignments : Satisfies(a) => sunkCount(a) = 1)

\* C3: after the top-level call of the search has returned, the undo log has
\* no entry, every variable's current domain holds exactly the values of its
\* original domain, and every variable is unassigned.
C3_UndoComplete ==
    pc = "done" =>
        /\ \A k \in Keys : undoDict[k] = <<>>
        /\ \A v \in Vars : sameValues(curdom[v], dom[v])
        /\ \A v \in Vars : value[v] = None

\* a search that pruned and restored values has returned
C3_Witness ==
    /\ pc = "done"
    /\ \E v \in Vars : curdom[v] # dom[v]
    /\ Len(sunk) > 0

\* an attempt of the innermost call is finished and its next value is not
\* yet tried
attemptDone == pc = "loop" /\ top.idx > 1

\* C4: once an attempt (v, val) is finished and before the next value of v is
\* tried, the undo log has no entry under (v, val) and every current domain
\* (the same values, each as often as before) and every assigned value but
\* v's own are what they were immediately before v was assigned val.
C4_RestoreOnExit ==
    attemptDone =>
        /\ undoDict[<<topVar, top.vals[top.idx - 1]>>] = <<>>
        /\ \A v \in Vars : sameBag(curdom[v], top.saved.curdom[v])
        /\ \A v \in Vars \ {topVar} : value[v] = top.saved.value[v]

\* the enforcer has reported a wipeout to the innermost call
wipeoutReturned == pc = "restore" /\ ~top.noOWO

\* C5: a step of the enforcer that ends the pass by a wipeout hands control
\* to the restore of the same call without a recursive call and without a
\* call of the sink; the restore empties the undo log entry of the attempt,
\* gives every current domain its values back and moves the same call to its
\* next value; and a search that has returned has reported every full
\* assignment that satisfies every constraint.
C5_WipeoutLocal ==
    /\ [][ (pc = "check" /\ pc' \notin {"check", "enforce"}) =>
              /\ pc' = "restore"
              /\ Len(stack') = Len(stack)
              /\ ~stack'[Len(stack')].noOWO
              /\ sunk' = sunk ]_vars
    /\ [][ wipeoutReturned =>
              /\ pc' = "loop"
              /\ Len(stack') = Len(stack)
              /\ stack'[Len(stack')].var = topVar
              /\ stack'[Len(stack')].idx = top.idx + 1
              /\ undoDict'[<<topVar, topVal>>] = <<>>
              /\ \A v \in Vars : sameValues(curdom'[v], top.saved.curdom[v])
              /\ sunk' = sunk ]_vars
    /\ [](pc = "done" => \A a \in FullAssignments : Satisfies(a) => sunkCount(a) >= 1)

\* a wipeout has been restored, solutions were reported before it and the
\* same call has another value to try
C5_Witness ==
    /\ pc = "loop"
    /\ ~top.noOWO
    /\ top.idx > 1
    /\ top.idx <= Len(top.vals)
    /\ Len(sunk) > 0

\* C6: the top-level call of the search eventually returns.
C6_Terminates == <>(pc = "done")

\* C7: when the enforcer, run a second time from the state in which it
\* returned success, with the same seed and reason pair, has emptied its
\* worklist again, no current domain and no undo log entry has changed.
C7_Idempotent ==
    (/\ pc = "enforce"
     /\ queue = <<>>
     /\ ret.op = "rerun"
     /\ Len(stack) = ret.depth
     /\ top.idx = ret.idx) =>
        /\ curdom = ret.curdom
        /\ undoDict = ret.undoDict


\* the values a variable can take for a support: currentDomain() as a set
curValues(v) == { x \in Vals : inCurDomain(curdom, value, v, x) }

\* the tuples over the scope of c that give var the value x and every other
\* variable of the scope a value of its currentDomain()
extensions(c, var, x) ==
    { t \in [1..Len(c.scope) -> Vals] :
        \A i \in 1..Len(c.scope) :
            IF c.scope[i] = var THEN t[i] = x ELSE t[i] \in curValues(c.scope[i]) }

\* C8: for a Table constraint and a variable of its scope, hasSupport(v, val)
\* is true iff one of the satisfying tuples, in whatever order they are
\* stored, gives v the value val and every other scope variable a value of its
\* currentDomain().
C8_TableSupport ==
    (ret.op = "hasSupport" /\ cons[1].kind = "Table" /\ InList(cons[1].scope, ret.var)) =>
        (ret.result <=>
            \E t \in extensions(cons[1], ret.var, ret.x) : InList(cons[1].sat, t))

\* hasSupport is true by the second stored tuple of a three-variable table,
\* the first one giving v the value but an assigned variable another value
C8_Witness ==
    /\ ret.op = "hasSupport"
    /\ ret.result
    /\ cons[1].kind = "Table"
    /\ Len(cons[1].scope) = 3
    /\ InList(cons[1].scope, ret.var)
    /\ Len(cons[1].sat) = 2
    /\ cons[1].sat[1][Index(cons[1].scope, ret.var)] = ret.x
    /\ cons[1].sat[1] \notin extensions(cons[1], ret.var, ret.x)
    /\ \E v \in Vars : v # ret.var /\ value[v] # None /\ ~InList(curdom[v], value[v])

\* C9: for an NValues constraint and a variable of its scope, hasSupport(v,
\* val) is true iff v = val and one value of currentDomain() for every other
\* scope variable give a number of values in requiredValues that lies in
\* [lowerBound, upperBound].
C9_NValuesSupport ==
    (ret.op = "hasSupport" /\ cons[1].kind = "NValues" /\ InList(cons[1].scope, ret.var)) =>
        (ret.result <=>
            \E t \in extensions(cons[1], ret.var, ret.x) :
                LET n == Cardinality({ i \in 1..Len(t) : t[i] \in cons[1].req })
                IN  cons[1].lb <= n /\ n <= cons[1].ub)

\* hasSupport is false over three variables although every other scope
\* variable has a value to choose
C9_Witness ==
    /\ ret.op = "hasSupport"
    /\ ~ret.result
    /\ cons[1].kind = "NValues"
    /\ Len(cons[1].scope) = 3
    /\ InList(cons[1].scope, ret.var)
    /\ extensions(cons[1], ret.var, ret.x) # {}
    /\ cons[1].lb > 0

\* C10: check() of a Table constraint is true when a scope variable is
\* unassigned, and otherwise true iff the assigned values, in scope order, are
\* one of the satisfying tuples.
C10_TableCheck ==
    (ret.op = "check" /\ cons[1].kind = "Table") =>
        (ret.result <=>
            \/ \E i \in 1..Len(cons[1].scope) : value[cons[1].scope[i]] = None
            \/ \E k \in 1..Len(cons[1].sat) :
                  \A i \in 1..Len(cons[1].scope) :
                      cons[1].sat[k][i] = value[cons[1].scope[i]])

\* scope [A, B] with the tuples [1, 2], [2, 1]: check() is false for A = 1,
\* B = 1
C10_Witness ==
    /\ ret.op = "check"
    /\ ~ret.result
    /\ cons[1].scope = <<1, 2>>
    /\ cons[1].sat = << <<1, 2>>, <<2, 1>> >>
    /\ value[1] = 1
    /\ value[2] = 1

\* C11: check() of a cardinality constraint is true when a scope variable is
\* unassigned, and otherwise true iff the number of scope variables whose
\* assigned value is a required value lies between the lower and the upper
\* bound, both included.
C11_NValuesCheck ==
    (ret.op = "check" /\ cons[1].kind = "NValues") =>
        (ret.result <=>
            \/ \E i \in 1..Len(cons[1].scope) : value[cons[1].scope[i]] = None
            \/ LET n == Cardinality({i \in 1..Len(cons[1].scope) :
                                        value[cons[1].scope[i]] \in cons[1].req})
               IN  n >= cons[1].lb /\ n <= cons[1].ub)

\* required value 1 with the bounds 2..2 over three variables: check() is true
\* for the values 1, 1, 2, which reach the upper bound exactly
C11_Witness ==
    /\ ret.op = "check"
    /\ ret.result
    /\ cons[1].kind = "NValues"
    /\ cons[1].scope = <<1, 2, 3>>
    /\ cons[1].req = {1}
    /\ cons[1].lb = 2
    /\ cons[1].ub = 2
    /\ value = <<1, 1, 2>>

\* C12: in every state of a search, every value of a variable's stored current
\* domain is a value of its original domain, and the value of an assigned
\* variable is a value of its original domain.
C12_DomainInvariant ==
    \A v \in Vars :
        /\ \A i \in 1..Len(curdom[v]) : InList(dom[v], curdom[v][i])
        /\ value[v] # None => InList(dom[v], value[v])

\* a variable is assigned, a second has a value pruned and a third has had
\* its pruned values given back
C12_Witness ==
    \E a, b, c \in Vars :
        /\ value[a] # None
        /\ Len(curdom[b]) < Len(dom[b])
        /\ Len(curdom[c]) = Len(dom[c])
        /\ curdom[c] # dom[c]

\* C13: a step that assigns or unassigns a variable changes the assigned value
\* of that variable only: the stored current domain of every variable, the
\* assigned value of every other variable and the undo log stay as they were.
C13_AssignOverlay ==
    [][value' # value =>
          /\ curdom' = curdom
          /\ undoDict' = undoDict
          /\ dom' = dom
          /\ \E v \in Vars : \A w \in Vars \ {v} : value'[w] = value[w]]_vars

\* a variable has just been assigned while another variable has a pruned
\* value, logged in the undo log under an outer assignment
C13_Witness ==
    /\ pc = "enforce"
    /\ cur = NoCur
    /\ queue = constraintsOf(cons, topVar)
    /\ value[topVar] = topVal
    /\ \E k \in Keys : k # <<topVar, topVal>> /\ undoDict[k] # <<>>
    /\ \E v \in Vars \ {topVar} : Len(curdom[v]) < Len(dom[v])

\* ------------------------------------------------------- valsOK applied
\* One cardinality constraint; valsOK does not read the variables.
InitValsOK ==
    /\ dom = [v \in Vars |-> <<1, 2>>]
    /\ curdom = dom
    /\ value = [v \in Vars |-> None]
    /\ undoDict = [k \in Keys |-> <<>>]
    /\ \E c \in PureNValues : cons = <<c>>
    /\ pool = <<>>
    /\ stack = <<>>
    /\ pc = "apply"
    /\ queue = <<>>
    /\ cur = NoCur
    /\ sunk = <<>>
    /\ ret = NoRet

\* valsOK(l) is called, as findvals_ calls it, with the values given so far to
\* one or more of the scope variables
ApplyValsOK ==
    /\ pc = "apply"
    /\ \E l \in listsUpTo(Vals, arity(cons[1])) \ { <<>> } :
          ret' = [op |-> "valsOK", l |-> l, result |-> valsOK(cons[1], l)]
    /\ pc' = "applied"
    /\ UNCHANGED <<dom, curdom, value, undoDict, cons, pool, stack, queue, cur, sunk>>

NextValsOK == ApplyValsOK

SpecValsOK == InitValsOK /\ [][NextValsOK]_vars

\* ------------------------------------------- the methods of Variable, alone
\* How a call of Variable.setValue ends: the method has no raise statement, a
\* value outside the domain is reported by print and the call returns.
setValueOutcome(d, val, v, x) ==
    IF x # None /\ ~InList(d[v], x) THEN "printed" ELSE "returned"

\* How a call of Variable.pruneValue ends: the exception of list.remove for a
\* value that is not present is caught, reported by print, and the method
\* goes on to the undoDict lines and returns.
pruneValueOutcome(cd, v, x) ==
    IF InList(cd[v], x) THEN "returned" ELSE "printed"

\* the reasons under which the direct calls of pruneValue log
VarReasons == { <<1, 1>>, <<2, 2>> }

\* Any state of the variables, and an undo log that is empty or holds one
\* pair.
InitVar ==
    /\ dom = [v \in Vars |-> <<1, 2>>]
    /\ \E st \in [Vars -> PureVarStates] :
          /\ curdom = [v \in Vars |-> st[v].curdom]
          /\ value = [v \in Vars |-> st[v].value]
    /\ undoDict \in { [k \in Keys |-> <<>>],
                      [k \in Keys |-> IF k = <<1, 1>> THEN << <<2, 1>> >> ELSE <<>>] }
    /\ cons = <<>>
    /\ pool = <<>>
    /\ stack = <<>>
    /\ pc = "apply"
    /\ queue = <<>>
    /\ cur = NoCur
    /\ sunk = <<>>
    /\ ret = NoRet

\* one call v.setValue(x), x a value, a non-value or None
ApplySetValue ==
    /\ pc = "apply"
    /\ \E v \in Vars, x \in Vals \cup {None} :
          /\ value' = setValue(dom, value, v, x)
          /\ ret' = [op |-> "setValue", var |-> v, x |-> x,
                     outcome |-> setValueOutcome(dom, value, v, x),
                     before |-> [curdom |-> curdom, value |-> value,
                                 undoDict |-> undoDict]]
    /\ pc' = "applied"
    /\ UNCHANGED <<dom, curdom, undoDict, cons, pool, stack, queue, cur, sunk>>

\* one call v.pruneValue(x, reasonVar, reasonVal)
ApplyPruneValue ==
    /\ pc = "apply"
    /\ \E v \in Vars, x \in Vals, r \in VarReasons :
          /\ curdom' = pruneCurdom(curdom, v, x)
          /\ undoDict' = pruneUndo(undoDict, v, x, r[1], r[2])
          /\ ret' = [op |-> "pruneValue", var |-> v, x |-> x,
                     outcome |-> pruneValueOutcome(curdom, v, x),
                     before |-> [curdom |-> curdom, value |-> value,
                                 undoDict |-> undoDict]]
    /\ pc' = "applied"
    /\ UNCHANGED <<dom, value, cons, pool, stack, queue, cur, sunk>>

\* one call v.curDomain(), after which the caller appends x to the list it
\* got
ApplyCurDomain ==
    /\ pc = "apply"
    /\ \E v \in Vars, x \in Vals :
          LET l == curDomain(curdom, value, v)
          IN  /\ curdom' = curdomAfterChange(curdom, value, v, Append(l, x))
              /\ ret' = [op |-> "curDomain", var |-> v, x |-> x, result |-> l,
                         changed |-> Append(l, x),
                         before |-> [curdom |-> curdom, value |-> value,
                                     undoDict |-> undoDict]]
    /\ pc' = "applied"
    /\ UNCHANGED <<dom, value, undoDict, cons, pool, stack, queue, cur, sunk>>

\* the ways to call the static method clearUndoDict(self) of battle.py: with
\* no argument, with a Variable object, with the class Variable
ClearForms == {"none", "object", "class"}

\* How the call ends: without an argument the call raises TypeError (the
\* static method has one parameter).
clearUndoDictOutcome(form) == IF form = "none" THEN "raised" ELSE "returned"

\* Variable.clearUndoDict, the effect on the class attribute undoDict:
\* self.undoDict = dict() binds an attribute of the argument, which is the
\* dictionary of the class only when the argument is the class
clearUndoDict(ud, form) ==
    IF form = "class" THEN [k \in DOMAIN ud |-> <<>>] ELSE ud

\* one call of clearUndoDict
ApplyClearUndoDict ==
    /\ pc = "apply"
    /\ \E form \in ClearForms :
          /\ undoDict' = clearUndoDict(undoDict, form)
          /\ ret' = [op |-> "clearUndoDict", form |-> form,
                     outcome |-> clearUndoDictOutcome(form),
                     before |-> [curdom |-> curdom, value |-> value,
                                 undoDict |-> undoDict]]
    /\ pc' = "applied"
    /\ UNCHANGED <<dom, curdom, value, cons, pool, stack, queue, cur, sunk>>

NextVar ==
    \/ ApplySetValue
    \/ ApplyPruneValue
    \/ ApplyCurDomain
    \/ ApplyClearUndoDict

SpecVar == InitVar /\ [][NextVar]_vars

\* C14: setValue with a value that is not in the original domain fails with an
\* error (it does not return) and leaves the assigned value and the stored
\* current domain as they were; with a value of the original domain it
\* sets the assigned value.
C14_AssignFailFast ==
    ret.op = "setValue" =>
        IF ret.x # None /\ ~InList(dom[ret.var], ret.x)
        THEN /\ ret.outcome = "raised"
             /\ value = ret.before.value
             /\ curdom = ret.before.curdom
        ELSE value[ret.var] = ret.x

\* C15: pruneValue of a value that is not in the stored current domain fails
\* with a fatal error: the call does not return normally and adds no pair
\* to the undo log.
C15_PruneAbsentFatal ==
    (ret.op = "pruneValue" /\ ~InList(ret.before.curdom[ret.var], ret.x)) =>
        /\ ret.outcome = "raised"
        /\ undoDict = ret.before.undoDict

\* ----------------------------------------------------------- CSP.__init__
\* the set varsInCnst, the union of the scopes
varsInCnst(cs) ==
    { v \in Vars : \E i \in 1..Len(cs) : InList(cs[i].scope, v) }

\* the variables named by the "Warning" lines
initWarnings(variables, cs) ==
    { v \in Vars : InList(variables, v) /\ v \notin varsInCnst(cs) }

\* the variables named by the "Error" lines
initErrors(variables, cs) ==
    { v \in varsInCnst(cs) : ~InList(variables, v) }

\* an index loop that leaves out the scope variables it does not find
indexRaises_skipped(variables, cs) == FALSE

\* the loop that fills constraints_of: variables.index(v) raises ValueError
\* for a scope variable that is not in the list
indexRaises(variables, cs) ==
    \E i \in 1..Len(cs) : \E j \in 1..Len(cs[i].scope) :
        Index(variables, cs[i].scope[j]) = 0

\* the list constraints_of, one list of constraints per variable position
constraints_of(variables, cs) ==
    [i \in 1..Len(variables) |-> constraintsOf(cs, variables[i])]

NoCSP == [built |-> FALSE, variables |-> <<>>, constraints_of |-> <<>>]

\* A variable list that is any sub-list of the variables, and any graph of
\* the catalog: the scopes may name variables that are not in the list.
InitBuild ==
    /\ dom = [v \in Vars |-> <<1, 2>>]
    /\ curdom = dom
    /\ value = [v \in Vars |-> None]
    /\ undoDict = [k \in Keys |-> <<>>]
    /\ cons \in Graphs
    /\ pool \in { subList([i \in 1..NV |-> i], keep, 1) : keep \in SUBSET Vars }
    /\ stack = <<>>
    /\ pc = "build"
    /\ queue = <<>>
    /\ cur = NoCur
    /\ sunk = <<>>
    /\ ret = NoRet

\* CSP(name, variables, constraints) runs to its end
CSPInitReturn ==
    /\ pc = "build"
    /\ ~indexRaises(pool, cons)
    /\ ret' = [op |-> "CSP", raised |-> FALSE,
               warnings |-> initWarnings(pool, cons),
               errors |-> initErrors(pool, cons),
               csp |-> [built |-> TRUE, variables |-> pool,
                        constraints_of |-> constraints_of(pool, cons)]]
    /\ pc' = "built"
    /\ UNCHANGED <<dom, curdom, value, undoDict, cons, pool, stack, queue, cur, sunk>>

\* CSP(name, variables, constraints) prints its lines and is left by the
\* ValueError of variables.index: no object is returned
CSPInitRaise ==
    /\ pc = "build"
    /\ indexRaises(pool, cons)
    /\ ret' = [op |-> "CSP", raised |-> TRUE,
               warnings |-> initWarnings(pool, cons),
               errors |-> initErrors(pool, cons),
               csp |-> NoCSP]
    /\ pc' = "raised"
    /\ UNCHANGED <<dom, curdom, value, undoDict, cons, pool, stack, queue, cur, sunk>>

\* steps of a caller on the list it got from constraintsOf, per list
MaxListOps == 2

\* a constraintsOf that hands out the list of the index itself: a change of
\* the caller's list is a change of the index
indexAfter_shared(index, i, q) == [index EXCEPT ![i] = q]

\* CSP.constraintsOf returns list(self.constraints_of[i]), a new list: the
\* index after the caller has changed its list to q is the index before
indexAfter(index, i, q) == index

\* csp.constraintsOf(v) for a variable of the graph: the caller (GacEnforce
\* gets its list `constraints' this way) holds the returned list in queue;
\* cur.vi is the position of v and cur.ki counts the caller's steps on the
\* list
BuiltConstraintsOf ==
    /\ pc = "built"
    /\ \E i \in 1..Len(pool) :
          /\ queue' = ret.csp.constraints_of[i]
          /\ cur' = [c |-> 0, vi |-> i, vals |-> <<>>, ki |-> 0]
    /\ pc' = "worklist"
    /\ UNCHANGED <<dom, curdom, value, undoDict, cons, pool, stack, sunk, ret>>

\* GacEnforce, constraints.pop(0) on the list it was given
BuiltPop ==
    /\ pc = "worklist"
    /\ cur.ki < MaxListOps
    /\ queue # <<>>
    /\ queue' = Tail(queue)
    /\ ret' = [ret EXCEPT !.csp.constraints_of =
                              indexAfter(@, cur.vi, queue')]
    /\ cur' = [cur EXCEPT !.ki = @ + 1]
    /\ UNCHANGED <<dom, curdom, value, undoDict, cons, pool, stack, pc, sunk>>

\* GacEnforce, constraints.append(recheck) on the list it was given
BuiltAppend ==
    /\ pc = "worklist"
    /\ cur.ki < MaxListOps
    /\ \E c \in 1..Len(cons) :
          /\ ~InList(queue, c)
          /\ queue' = Append(queue, c)
    /\ ret' = [ret EXCEPT !.csp.constraints_of =
                              indexAfter(@, cur.vi, queue')]
    /\ cur' = [cur EXCEPT !.ki = @ + 1]
    /\ UNCHANGED <<dom, curdom, value, undoDict, cons, pool, stack, pc, sunk>>

NextBuild ==
    \/ CSPInitReturn
    \/ CSPInitRaise
    \/ BuiltConstraintsOf
    \/ BuiltPop
    \/ BuiltAppend

SpecBuild == InitBuild /\ [][NextBuild]_vars

\* the scope variables that are not in the variable list
missingVars ==
    { v \in Vars : /\ \E i \in 1..Len(cons) : \E j \in 1..Len(cons[i].scope) :
                          cons[i].scope[j] = v
                   /\ \A i \in 1..Len(pool) : pool[i] # v }

\* C16: the construction of a CSP of which a constraint names a variable that
\* is not in the variable list fails: the missing variables are reported, the
\* constructor raises and no graph is built.
C16_ScopeMismatch ==
    (ret.op = "CSP" /\ missingVars # {}) =>
        /\ ret.raised
        /\ ret.errors = missingVars
        /\ ~ret.csp.built

\* the list [A, B] with the constraints AneqB and BC, BC naming C: the
\* constructor has reported C and raised
C16_Witness ==
    /\ ret.op = "CSP"
    /\ ret.raised
    /\ pool = <<1, 2>>
    /\ Len(cons) = 2
    /\ cons[1].name = "AneqB"
    /\ cons[2].name = "BC"
    /\ ret.errors = {3}

\* --------------------------------- two searches that share Variable.undoDict
\* Two programs are run on graphs over disjoint variables, A and B for the
\* first, C for the second.  The variables curdom, value and undoDict hold the
\* fields of all the Variable objects and the one class-wide undoDict; pool,
\* stack, pc, queue, cur, sunk and cons hold the locals of the search that is
\* running, and ret.other those of the search that is suspended.  Each search
\* is first run alone from fresh variables and its result is kept; then both
\* are run again from fresh variables, interleaved step by step.
VarsOf(who) == IF who = "first" THEN {1, 2} ELSE {3}

PoolOf(who) == IF who = "first" THEN <<1, 2>> ELSE <<3>>

GraphsFirst ==
    { subList(<< Table("AneqB", <<1, 2>>, << <<1, 2>>, <<2, 1>> >>),
                 Table("Bis2", <<2>>, << <<2>> >>) >>, keep, 1) : keep \in SUBSET (1..2) }

GraphsSecond == { <<>>, << Table("Cis1", <<3>>, << <<1>> >>) >> }

\* the locals of a search that has not started
freshCtx(who, g) ==
    [pool |-> PoolOf(who), stack |-> <<>>, pc |-> "call", queue |-> <<>>,
     cur |-> NoCur, sunk |-> <<>>, cons |-> g]

\* what a search leaves behind: the assignments handed to the sink, in order,
\* and the fields of its variables
resultOf(who, sk, cd, val) ==
    [sunk |-> [i \in 1..Len(sk) |-> [v \in VarsOf(who) |-> sk[i][v]]],
     curdom |-> [v \in VarsOf(who) |-> cd[v]],
     value |-> [v \in VarsOf(who) |-> val[v]]]

NoResult == [sunk |-> <<>>, curdom |-> <<>>, value |-> <<>>]

otherOf(who) == IF who = "first" THEN "second" ELSE "first"

InitTwo ==
    /\ dom \in Doms
    /\ curdom = dom
    /\ value = [v \in Vars |-> None]
    /\ undoDict = [k \in Keys |-> <<>>]
    /\ \E g1 \in GraphsFirst, g2 \in GraphsSecond :
          /\ cons = g1
          /\ ret = [op |-> "two", phase |-> "alone", active |-> "first",
                    other |-> freshCtx("second", g2), graph |-> g1,
                    alone |-> [w \in {"first", "second"} |-> NoResult]]
    /\ pool = PoolOf("first")
    /\ stack = <<>>
    /\ pc = "call"
    /\ queue = <<>>
    /\ cur = NoCur
    /\ sunk = <<>>

\* the search that ran alone is done: its result is kept, and the other
\* search starts alone from fresh variables
TwoNextAlone ==
    /\ ret.phase = "alone"
    /\ ret.active = "first"
    /\ pc = "done"
    /\ ret' = [ret EXCEPT !.active = "second",
                          !.other = freshCtx("first", ret.graph),
                          !.graph = ret.other.cons,
                          !.alone["first"] = resultOf("first", sunk, curdom, value)]
    /\ curdom' = dom
    /\ value' = [v \in Vars |-> None]
    /\ undoDict' = [k \in Keys |-> <<>>]
    /\ cons' = ret.other.cons
    /\ pool' = ret.other.pool
    /\ stack' = ret.other.stack
    /\ pc' = ret.other.pc
    /\ queue' = ret.other.queue
    /\ cur' = ret.other.cur
    /\ sunk' = ret.other.sunk
    /\ UNCHANGED dom

\* both searches have run alone: both start again from fresh variables, now
\* to be interleaved
TwoStartBoth ==
    /\ ret.phase = "alone"
    /\ ret.active = "second"
    /\ pc = "done"
    /\ ret' = [ret EXCEPT !.phase = "both",
                          !.other = freshCtx("first", ret.other.cons),
                          !.alone["second"] = resultOf("second", sunk, curdom, value)]
    /\ curdom' = dom
    /\ value' = [v \in Vars |-> None]
    /\ undoDict' = [k \in Keys |-> <<>>]
    /\ pool' = PoolOf("second")
    /\ stack' = <<>>
    /\ pc' = "call"
    /\ queue' = <<>>
    /\ cur' = NoCur
    /\ sunk' = <<>>
    /\ UNCHANGED <<dom, cons>>

\* the running search is suspended and the other one resumes
Switch ==
    /\ ret.phase = "both"
    /\ ret' = [ret EXCEPT !.active = otherOf(ret.active),
                          !.other = [pool |-> pool, stack |-> stack, pc |-> pc,
                                     queue |-> queue, cur |-> cur, sunk |-> sunk,
                                     cons |-> cons]]
    /\ cons' = ret.other.cons
    /\ pool' = ret.other.pool
    /\ stack' = ret.other.stack
    /\ pc' = ret.other.pc
    /\ queue' = ret.other.queue
    /\ cur' = ret.other.cur
    /\ sunk' = ret.other.sunk
    /\ UNCHANGED <<dom, curdom, value, undoDict>>

NextTwo == Next \/ TwoNextAlone \/ TwoStartBoth \/ Switch

SpecTwo == InitTwo /\ [][NextTwo]_vars

\* C17: two searches over disjoint variables that share the class-wide undo
\* log do not interfere when they are interleaved: a step of one search leaves
\* the fields of the other's variables and the entries under the other's
\* reason keys as they are, and when both are done each has handed the same
\* assignments to the sink and left its variables in the same state as when
\* it ran alone.
C17_NoInterference ==
    /\ [](ret.op = "two" /\ ret.phase = "both" /\ pc = "done" /\ ret.other.pc = "done" =>
            /\ resultOf(ret.active, sunk, curdom, value) = ret.alone[ret.active]
            /\ resultOf(otherOf(ret.active), ret.other.sunk, curdom, value)
                  = ret.alone[otherOf(ret.active)]
            /\ undoDict = [k \in Keys |-> <<>>])
    /\ [][(ret.op = "two" /\ ret.phase = "both" /\ ret'.active = ret.active) =>
            \A v \in VarsOf(otherOf(ret.active)) :
                /\ curdom'[v] = curdom[v]
                /\ value'[v] = value[v]
                /\ \A x \in Vals : undoDict'[<<v, x>>] = undoDict[<<v, x>>]]_vars

\* the second search has restored the value pruned under its reason (C, 2)
\* and deleted that entry, while the suspended first search has pairs in the
\* undo log under a reason of its own
C17_Witness ==
    /\ ret.op = "two"
    /\ ret.phase = "both"
    /\ ret.active = "second"
    /\ Len(cons) = 1
    /\ pc = "loop"
    /\ Len(stack) = 1
    /\ top.idx = 3
    /\ undoDict[<<3, 2>>] = <<>>
    /\ curdom[3] = <<1, 2>>
    /\ \E k \in Keys : k[1] \in VarsOf("first") /\ undoDict[k] # <<>>

\* C18: every call of the enforcer eventually returns, success or wipeout,
\* also from a state in which the value of an assigned variable has no
\* support in two or more constraints.
C18_EnforcerReturns ==
    (pc \in {"enforce", "check"}) ~> (pc \notin {"enforce", "check"})

\* C19: when the enforcer returns success, every value in the current domain
\* (as currentDomain() gives it) of every scope variable of every constraint
\* that was in the worklist during the call has a support in that constraint.
C19_Fixpoint ==
    (pc = "enforce" /\ queue = <<>>) =>
        \A c \in top.seen :
            \A i \in 1..Len(cons[c].scope) :
                LET v  == cons[c].scope[i]
                    cd == curDomain(curdom, value, v)
                IN  \A k \in 1..Len(cd) : hasSupport(cons[c], curdom, value, v, cd[k])

\* C20: a prune that leaves a variable with no value in its stored current
\* domain ends the enforcer with wipeout in the same step: no further
\* constraint is popped and no further value is pruned.
C20_ImmediateWipeout ==
    [][(pc = "check" /\ \E v \in Vars : curdom[v] # <<>> /\ curdom'[v] = <<>>) =>
          /\ pc' = "restore"
          /\ ~stack'[Len(stack')].noOWO
          /\ queue' = <<>>]_vars

\* C21: at every decision point of the search, also after backtracks, the
\* variable that is selected (the head of the pool) is the unassigned variable
\* that comes first in the variable order of the graph.
C21_FixedOrder ==
    (pc = "call" /\ pool # <<>>) =>
        /\ value[Head(pool)] = None
        /\ \A v \in Vars : value[v] = None => Head(pool) <= v

\* C22: no stored current domain holds the same value twice (the original
\* domains hold pairwise distinct values).
C22_NoDuplicates ==
    \A v \in Vars : \A x \in Vals : occurrences(curdom[v], x) <= 1

\* number of pairs (v, x) in the undo log, over all reason keys
logCount(v, x) ==
    Cardinality({ ki \in Keys \X (1..MaxLog) :
                    /\ ki[2] <= Len(undoDict[ki[1]])
                    /\ undoDict[ki[1]][ki[2]] = <<v, x>> })

\* C23: for every variable, the values of its stored current domain and the
\* values logged for it in the undo log (over all reason keys) are disjoint,
\* each logged at most once, and together exactly the values of its original
\* domain.
C23_UndoAccounting ==
    \A v \in Vars : \A x \in Vals :
        occurrences(curdom[v], x) + logCount(v, x)
            = IF InList(dom[v], x) THEN 1 ELSE 0

\* C24: a step of the propagation pass of the assignment (R, r) that removes
\* a value from a stored current domain appends the pair of the variable and
\* the value to the undo log under the key (R, r), R being assigned r, and
\* leaves the entry of every other key as it is.
C24_LoggedUnderReason ==
    [][\A v \in Vars : \A x \in Vals :
          (pc = "check" /\ occurrences(curdom'[v], x) < occurrences(curdom[v], x)) =>
              /\ value[topVar] = topVal
              /\ undoDict' = [undoDict EXCEPT ![<<topVar, topVal>>] = Append(@, <<v, x>>)]]_vars

\* the pass of the assignment of the second variable of the search has just
\* removed a value from another variable and logged the pair last under the
\* key of that assignment
C24_Witness ==
    /\ pc = "check"
    /\ Len(stack) = 2
    /\ cur.vi >= 1
    /\ cur.ki >= 2
    /\ undoDict[<<topVar, topVal>>] # <<>>
    /\ LET l == undoDict[<<topVar, topVal>>]
           p == l[Len(l)]
       IN  /\ p[1] # topVar
           /\ ~InList(curdom[p[1]], p[2])
           /\ p = <<curVar, cur.vals[cur.ki - 1]>>

\* C25: the worklist never holds a constraint twice, and after a step of the
\* enforcer that prunes a value of variable v while processing constraint c
\* without wipeout, every constraint with v in its scope, other than c, is in
\* the worklist.
C25_Worklist ==
    /\ [](\A c \in 1..Len(cons) : occurrences(queue, c) <= 1)
    /\ [][(/\ pc = "check"
           /\ cur.ki <= Len(cur.vals)
           /\ ~hasSupport(curCons, curdom, value, curVar, curVal)
           /\ pc' = "check") =>
              \A c \in 1..Len(cons) :
                  (InList(cons[c].scope, curVar) /\ c # cur.c) => InList(queue', c)]_vars

\* a value of a variable other than the assigned one has just been pruned
\* without wipeout, and a constraint of that variable that was waiting in the
\* worklist since the seed is in the worklist once
C25_Witness ==
    /\ pc = "check"
    /\ cur.vi >= 1
    /\ cur.ki >= 2
    /\ curVar # topVar
    /\ undoDict[<<topVar, topVal>>] # <<>>
    /\ LET l == undoDict[<<topVar, topVal>>]
       IN  l[Len(l)] = <<curVar, cur.vals[cur.ki - 1]>>
    /\ \E c \in 1..Len(cons) :
          /\ c # cur.c
          /\ InList(cons[c].scope, curVar)
          /\ InList(cons[c].scope, topVar)
          /\ occurrences(queue, c) = 1

C27_SinkInComplete ==
    [][Len(sunk') > Len(sunk) =>
          /\ pool = <<>>
          /\ \A v \in Vars : value[v] # None
          /\ sunk' = Append(sunk, value)
          /\ pc' = "restore"
          /\ stack' = stack]_vars

\* the sink has been called, the search went on and called it again
C27_Witness ==
    /\ pc = "restore"
    /\ Len(sunk) >= 2
    /\ sunk[Len(sunk)] = value
    /\ sunk[1] # value

\* C28: every reason key that has an entry in the undo log names a variable
\* that is assigned the value of the key: no entry outlives its assignment.
C28_KeysAssigned ==
    \A k \in Keys : undoDict[k] # <<>> => value[k[1]] = k[2]

\* the entry of the first value of the outermost variable is gone after the
\* backtrack, and the pass of its second value has logged a pair
C28_Witness ==
    /\ Len(stack) >= 1
    /\ stack[1].idx = 2
    /\ Len(stack[1].vals) >= 2
    /\ undoDict[<<stack[1].var, stack[1].vals[1]>>] = <<>>
    /\ undoDict[<<stack[1].var, stack[1].vals[2]>>] # <<>>
    /\ value[stack[1].var] = stack[1].vals[2]

\* C29: a step of the enforcer removes a value from an unassigned variable
\* only if the constraint being processed has no support for it, and the value
\* then belongs to no full assignment over the original domains that extends
\* the current assignment and satisfies every constraint.
C29_PruneSound ==
    [][(/\ pc = "check"
        /\ cur.ki <= Len(cur.vals)
        /\ value[curVar] = None
        /\ curdom'[curVar] # curdom[curVar]) =>
           /\ ~hasSupport(curCons, curdom, value, curVar, curVal)
           /\ curdom'[curVar] = ListRemove(curdom[curVar], curVal)
           /\ ~\E a \in FullAssignments :
                  /\ \A w \in Vars : value[w] # None => a[w] = value[w]
                  /\ a[curVar] = curVal
                  /\ Satisfies(a)]_vars

\* a value of an unassigned variable has just been pruned in a graph that has
\* a solution extending the current assignment
C29_Witness ==
    /\ pc = "check"
    /\ cur.vi >= 1
    /\ cur.ki >= 2
    /\ value[curVar] = None
    /\ ~InList(curdom[curVar], cur.vals[cur.ki - 1])
    /\ InList(dom[curVar], cur.vals[cur.ki - 1])
    /\ Len(cons) >= 2
    /\ \E a \in FullAssignments :
          /\ \A w \in Vars : value[w] # None => a[w] = value[w]
          /\ Satisfies(a)

\* C30: a step of the enforcer changes no assigned value and adds no value to
\* a stored current domain; assigned values change only in the steps of the
\* search.
C30_Roles ==
    [][/\ pc \in {"enforce", "check"} =>
            /\ value' = value
            /\ \A v \in Vars : \A x \in Vals :
                  occurrences(curdom'[v], x) <= occurrences(curdom[v], x)
       /\ value' # value => pc = "loop"]_vars

\* a pass of the enforcer has ended with wipeout after pruning: the assigned
\* values are those of the start of the pass
C30_Witness ==
    /\ pc = "restore"
    /\ ~top.noOWO
    /\ Len(stack) >= 2
    /\ value[topVar] = topVal
    /\ \A v \in Vars \ {topVar} : value[v] = top.saved.value[v]
    /\ Len(undoDict[<<topVar, topVal>>]) >= 2

C38_ClearUndoDict ==
    ret.op = "clearUndoDict" => \A k \in Keys : undoDict[k] = <<>>

\* C32: for a table and for a cardinality constraint, hasSupport(v, val) is
\* true for every value when v is not in the scope of the constraint, whatever
\* the current domains and the assignments of the scope variables are.
C32_VacuousSupport ==
    (ret.op = "hasSupport" /\ \A i \in 1..Len(cons[1].scope) : cons[1].scope[i] # ret.var) =>
        ret.result

\* hasSupport is true for a variable outside the scope of a table of which a
\* scope variable has an empty current domain
C32_Witness ==
    /\ ret.op = "hasSupport"
    /\ ret.result
    /\ cons[1].kind = "Table"
    /\ cons[1].scope = <<1, 2>>
    /\ ret.var = 3
    /\ value[1] = None
    /\ curdom[1] = <<>>

\* C33: valsOK rejects the values given to k of the n scope variables, r of
\* them required values, if and only if r is above the upper bound or
\* r + (n - k) is below the lower bound; with k = n it accepts exactly when r
\* lies between the bounds.
C33_ValsOK ==
    ret.op = "valsOK" =>
        LET n == Len(cons[1].scope)
            k == Len(ret.l)
            r == Cardinality({ i \in 1..Len(ret.l) : ret.l[i] \in cons[1].req })
        IN  /\ ~ret.result <=> (r > cons[1].ub \/ r + (n - k) < cons[1].lb)
            /\ k = n => (ret.result <=> (cons[1].lb <= r /\ r <= cons[1].ub))

\* two of three variables have values, none of them required, and the lower
\* bound is 2: rejected, although 0 is not above the upper bound
C33_Witness ==
    /\ ret.op = "valsOK"
    /\ ~ret.result
    /\ Len(cons[1].scope) = 3
    /\ cons[1].req = {1}
    /\ cons[1].lb = 2
    /\ cons[1].ub = 3
    /\ ret.l = <<2, 2>>

heldVars == { stack[i].var : i \in 1..Len(stack) }

\* the innermost call has popped its variable and has not assigned it yet:
\* it stands before the first iteration of its loop
justPopped(v) ==
    /\ stack # <<>>
    /\ pc = "loop"
    /\ top.idx = 1
    /\ topVar = v

freeVars ==
    { v \in Vars : \A i \in 1..Len(cons) : ~InList(cons[i].scope, v) }

\* no value of a free variable has been pruned: its stored current domain is
\* its original domain and no pair of the undo log names it
freeVarsUntouched ==
    \A v \in freeVars :
        /\ curdom[v] = dom[v]
        /\ \A k \in Keys : \A i \in 1..Len(undoDict[k]) : undoDict[k][i][1] # v

\* every full assignment that satisfies the constraints has been given to the
\* sink exactly once: with a free variable, every solution of the rest of the
\* graph once for each value of the domain of that variable
freeVarsReported ==
    freeVars # {} =>
        \A a \in FullAssignments : Satisfies(a) => sunkCount(a) = 1

\* C36: a variable that is in no constraint has none of its values pruned
\* during the search, and from some point on every solution of the rest of
\* the graph has been reported once for each value of the domain of that
\* variable.
C36_FreeVariable ==
    /\ []freeVarsUntouched
    /\ <>[]freeVarsReported

\* --------------------------------------------------------- CSP.check applied
\* A CSP over the variables A and B is asked to check a list of candidate
\* solutions.  The other variables of Vars are Variable objects that are not
\* in the CSP.  The loop over the solutions is one action per solution, the
\* solution being any list of at most two (variable, value) pairs, so that the
\* behaviours go through every list of solutions of every length.  Of the
\* list errs the model keeps the entry of the last solution, in ret.msg.

\* CSP.variables() of the checked CSP
CheckVariables == <<1, 2>>

\* the constraints the checked CSPs are built from
CheckCatalog ==
    << Table("AneqB", <<1, 2>>, << <<1, 2>>, <<2, 1>> >>),
       Table("Bis2", <<2>>, << <<2>> >>),
       NValues("oneOne", <<2, 1>>, {1}, 1, 1) >>

CheckGraphs ==
    { subList(CheckCatalog, keep, 1) : keep \in SUBSET (1..Len(CheckCatalog)) }

\* a Variable object that is not in the CSP
foreignVar == CHOOSE v \in Vars : ~InList(CheckVariables, v)

\* the values of the candidate solutions: every value of a domain of Doms,
\* of which 3 is in the domain of B in one case and of A in none
CheckVals == UNION { listSet(d[v]) : d \in Doms, v \in Vars }

\* the candidate solutions: lists of (variable, value) pairs, the value in
\* the domain or not, the variable in the CSP or not
Candidates ==
    listsUpTo((listSet(CheckVariables) \cup {foreignVar}) \X CheckVals, Len(CheckVariables))

\* the values of A and B when check is called
CheckPriors ==
    { [v \in Vars |-> None],
      [v \in Vars |-> IF v = 1 THEN 1 ELSE None],
      [v \in Vars |-> IF v = 1 THEN 2 ELSE IF v = 2 THEN 1 ELSE None],
      [v \in Vars |-> IF v \in {1, 2} THEN 1 ELSE None] }

\* s_vars = [var for (var, val) in s]
solutionVars(s) == [i \in 1..Len(s) |-> s[i][1]]

\* `for (var, val) in s: var.setValue(val)': the values after the loop
RECURSIVE assignSolution(_, _, _, _)
assignSolution(d, val, s, i) ==
    IF i > Len(s) THEN val
    ELSE assignSolution(d, setValue(d, val, s[i][1], s[i][2]), s, i + 1)

\* `for c in self.constraints(): if not c.check(): ... break': the name of
\* the first constraint whose check() is false, "none" when there is none
RECURSIVE firstViolated(_, _, _)
firstViolated(cs, val, i) ==
    IF i > Len(cs) THEN "none"
    ELSE IF ~check(cs[i], val) THEN cs[i].name
    ELSE firstViolated(cs, val, i + 1)

\* the three tests of CSP.check on the variables of a solution: the message
\* of the first that rejects it, "none" when the solution passes them
malformedMessage(variables, s) ==
    IF Len(solutionVars(s)) # Len(variables)
    THEN "Solution has incorrect number of variables in it"
    ELSE IF Cardinality(listSet(solutionVars(s))) # Len(variables)
    THEN "Solution has duplicate variable assignments"
    ELSE IF listSet(solutionVars(s)) # listSet(variables)
    THEN "Solution has incorrect variable in it"
    ELSE "none"

\* one iteration of the loop over the solutions, the values it leaves: a
\* rejected solution is skipped by `continue' before any setValue
solutionValues(variables, d, val, s) ==
    IF malformedMessage(variables, s) # "none" THEN val
    ELSE assignSolution(d, val, s, 1)

\* one iteration of the loop over the solutions, the entry it appends to
\* errs: "none" when it appends nothing
solutionMessage(variables, cs, d, val, s) ==
    IF malformedMessage(variables, s) # "none" THEN malformedMessage(variables, s)
    ELSE firstViolated(cs, assignSolution(d, val, s, 1), 1)

\* a return of CSP.check that leaves the values of the last solution
restoreCurrent_skip(d, val, current_values, variables, i) == val

\* `for (var, val) in current_values: var.setValue(val)'
RECURSIVE restoreCurrent(_, _, _, _, _)
restoreCurrent(d, val, current_values, variables, i) ==
    IF i > Len(variables) THEN val
    ELSE restoreCurrent(d, setValue(d, val, variables[i], current_values[variables[i]]),
                        current_values, variables, i + 1)

NoCheck == [op |-> "none", s |-> <<>>, msg |-> "none", current_values |-> [v \in Vars |-> None]]

\* A CSP over A and B with any sub-list of the constraints, its variables
\* unassigned or assigned values of their domains.
InitCheck ==
    /\ dom \in Doms
    /\ curdom = dom
    /\ value \in CheckPriors
    /\ undoDict = [k \in Keys |-> <<>>]
    /\ cons \in CheckGraphs
    /\ pool = CheckVariables
    /\ stack = <<>>
    /\ pc = "call"
    /\ queue = <<>>
    /\ cur = NoCur
    /\ sunk = <<>>
    /\ ret = NoCheck

\* CSP.check is entered: current_values is taken
CheckEnter ==
    /\ pc = "call"
    /\ ret' = [NoCheck EXCEPT !.op = "CSP.check", !.current_values = value]
    /\ pc' = "solutions"
    /\ UNCHANGED <<dom, curdom, value, undoDict, cons, pool, stack, queue, cur, sunk>>

\* one iteration of `for s in solutions'
CheckSolution ==
    /\ pc = "solutions"
    /\ \E s \in Candidates :
         /\ value' = solutionValues(pool, dom, value, s)
         /\ ret' = [ret EXCEPT !.s = s,
                               !.msg = solutionMessage(pool, cons, dom, value, s)]
    /\ UNCHANGED <<dom, curdom, undoDict, cons, pool, stack, pc, queue, cur, sunk>>

\* the loop over the solutions is over: the saved values are set again and
\* errs is returned
CheckReturn ==
    /\ pc = "solutions"
    /\ value' = restoreCurrent(dom, value, ret.current_values, pool, 1)
    /\ pc' = "returned"
    /\ UNCHANGED <<dom, curdom, undoDict, cons, pool, stack, queue, cur, sunk, ret>>

NextCheck == CheckEnter \/ CheckSolution \/ CheckReturn

SpecCheck == InitCheck /\ [][NextCheck]_vars

\* a solution names every variable of the CSP exactly once, with a value of
\* the domain of the variable
wellFormed(s) ==
    /\ Len(s) = Len(pool)
    /\ listSet(solutionVars(s)) = listSet(pool)
    /\ \A i \in 1..Len(s) : InList(dom[s[i][1]], s[i][2])

\* the assignment a well-formed solution stands for
valuesOf(s) ==
    [v \in Vars |-> IF \E i \in 1..Len(s) : s[i][1] = v
                    THEN s[CHOOSE i \in 1..Len(s) : s[i][1] = v][2]
                    ELSE None]

\* C37: when CSP.check returns, every variable has the value it had when the
\* call was entered, whatever solutions were in the list; and a well-formed
\* solution gets an entry in the returned list if and only if the check() of
\* some constraint is false under the values of that solution.
C37_CheckFrame ==
    /\ pc = "returned" => value = ret.current_values
    /\ (ret.op = "CSP.check" /\ ret.s # <<>> /\ wellFormed(ret.s)) =>
          (ret.msg # "none" <=>
              \E i \in 1..Len(cons) : ~check(cons[i], valuesOf(ret.s)))

\* check has returned after a well-formed solution that breaks a constraint
\* and gave both variables other values than they had at the call
C37_Witness ==
    /\ pc = "returned"
    /\ wellFormed(ret.s)
    /\ ret.msg = "AneqB"
    /\ \A i \in 1..Len(ret.s) :
          /\ ret.current_values[ret.s[i][1]] # None
          /\ ret.current_values[ret.s[i][1]] # ret.s[i][2]

====
